---- MODULE Spec2Model ----
(***************************************************************************)
(* Interruption / resume state machine of the chat backend                 *)
(* (src/api/chatkit_server.py): run-state store, interruption matcher,     *)
(* the action() and respond() turn handlers.                               *)
(*                                                                         *)
(* Fault model: the run_states table and the agents table answer every     *)
(* query; what may raise inside save_run_state's try block is the          *)
(* conversion of the run state (state.to_json() before the delete,         *)
(* json.dumps() after it).  Turns on one conversation do not overlap       *)
(* (single writer), so a turn is the unit that is interleaved with its     *)
(* consumer: it starts, forwards the events of its pass one by one, and    *)
(* finishes after the stream is drained.                                   *)
(*                                                                         *)
(* Spec      : the turns of respond() and action() on the shared store.    *)
(* SpecMatch : the matching step of action() on every small interruption   *)
(*             list and interruption_id.                                   *)
(* SpecStore : save_run_state and delete_run_state called in any order.    *)
(* SpecNorm  : the event normalizer (fix_chatkit_event_ids and its copies) *)
(*             on every short event stream over two logical items.         *)
(* SpecOwners: the store called for two users and a request without user.  *)
(* SpecItems : add_thread_item of the transcript store (src/api/stores.py) *)
(*             on items with every kind of id.                             *)
(* SpecSession: FixedIdSession.add_items on every short batch of items.    *)
(* SpecTools : a client tool output request on every short thread.        *)
(* SpecRace  : two callers whose queries to the run_states table           *)
(*             interleave (no single writer): two saves, two decisions.    *)
(* SpecLive  : one conversation driven to its end, every handler step and  *)
(*             every decision weakly fair.                                 *)
(***************************************************************************)
EXTENDS Integers, Sequences, FiniteSets, TLC

\* ---------------------------------------------------------------- bounds
MaxCalls == 2
MaxPar == 2
MaxEvents == 1
MaxRows == 2
MaxInts == 2
MaxDocs == 2
MaxSaves == 3
MaxOwnerSaves == 2
MaxItems == 2
MaxBatch == 2
MaxPage == 2
MaxThreadItems == 3
MaxStream == 3

\* ------------------------------------------------------- Python values
\* A Python value that reaches str(), `not x` or ==: a string, an int or None.
PyNone == [t |-> "none", s |-> ""]

PyStr(text) == [t |-> "str", s |-> text]

PyInt(digits) == [t |-> "int", s |-> digits]

\* str(x): the text of a string, the decimal text of an int, "None" for None
Str(x) == IF x.t = "none" THEN PyStr("None") ELSE PyStr(x.s)

\* bool(x): None, "" and 0 are falsy
Truthy(x) == /\ x.t # "none"
             /\ ~(x.t = "str" /\ x.s = "")
             /\ ~(x.t = "int" /\ x.s = "0")

\* call ids minted by the runtime for its n-th tool call
CallId(n) == PyStr(ToString(n))

\* ------------------------------------------------------ request context
NoUser == "None"

NoAgent == "None"

Users == {"u1"}

Threads == {"t1", "t2"}

\* rows of the agents table: (id, user_id)
AgentsTable == {[id |-> "a1", user_id |-> "u1"]}

\* request contexts: the owner with its agent, with an agent id that has no
\* row, with no agent id, and a request without user id
Contexts ==
    {[user_id |-> "u1", agent_id |-> "a1"], [user_id |-> "u1", agent_id |-> "a2"],
     [user_id |-> "u1", agent_id |-> NoAgent], [user_id |-> NoUser, agent_id |-> "a1"]}

\* the context of the user with its own agent
Owner == [user_id |-> "u1", agent_id |-> "a1"]

\* get_agent_by_id: None without user_id, else the row of that id and user
get_agent_by_id(agent_id, ctx) ==
    IF ctx.user_id = NoUser THEN NoAgent
    ELSE IF \E r \in AgentsTable : r.id = agent_id /\ r.user_id = ctx.user_id
         THEN agent_id
         ELSE NoAgent

\* load_agent_from_database: HTTPException 400 / 404, or the agent
load_agent_from_database(agent_id, ctx) ==
    IF ctx.user_id = NoUser THEN "raise_400"
    ELSE IF get_agent_by_id(agent_id, ctx) = NoAgent THEN "raise_404"
    ELSE "agent"

\* ------------------------------------------------------------ run state
\* ToolApprovalItem: the wrapper (id, agent) around the raw tool call record
ToolName == "get_weather"

ToolArgs == "location=Berkeley"

AgentName == "Agent"

Interruption(call_id, wrapper) ==
    [id |-> wrapper, agent |-> AgentName,
     raw_item |-> [name |-> ToolName, arguments |-> ToolArgs, call_id |-> call_id]]

NoState == [interruptions |-> <<>>, approvals |-> <<>>, context |-> "none"]

\* what the context slot of a run state holds: the live AgentContext of the
\* turn with its collaborators (thread metadata, data store, request context
\* with the Supabase client), or the plain dict a loaded state carries
JsonNull == [class |-> "null"]

ChatKitDataStore == [class |-> "ChatKitDataStore"]

SupabaseClient == [class |-> "Client"]

ThreadMetadata == [class |-> "ThreadMetadata", title |-> JsonNull]

\* TContext is a dict subclass holding the Supabase client
RequestContext == [class |-> "TContext", supabase |-> SupabaseClient]

AgentContext ==
    [class |-> "AgentContext", thread |-> ThreadMetadata, store |-> ChatKitDataStore,
     request_context |-> RequestContext, previous_response_id |-> JsonNull]

StrippedContext == [class |-> "dict", previous_response_id |-> JsonNull]

context_object(context) ==
    IF context = "fresh" THEN AgentContext
    ELSE IF context = "stripped" THEN StrippedContext
    ELSE JsonNull

\* variant: only the tool names of the interruptions reach the document
to_json_names_only(state) ==
    [interruptions |-> [i \in 1..Len(state.interruptions) |->
                           [agent |-> state.interruptions[i].agent,
                            raw_item |-> [state.interruptions[i].raw_item
                                            EXCEPT !.arguments = "", !.call_id = PyNone]]],
     context |-> context_object(state.context)]

\* RunState.to_json(): the open interruptions by raw record and agent (not
\* the wrapper id), and the context object as the state holds it
to_json(state) ==
    [interruptions |-> [i \in 1..Len(state.interruptions) |->
                           [agent |-> state.interruptions[i].agent,
                            raw_item |-> state.interruptions[i].raw_item]],
     context |-> context_object(state.context)]

\* the classes with a model_dump method, and the fields the save leaves out
Pydantic == {"AgentContext", "ThreadMetadata"}

Excluded == {"thread", "store", "request_context", "_events"}

\* obj.model_dump(exclude=..., mode='json'): a dict of the remaining fields
model_dump(obj, exclude) ==
    [f \in DOMAIN obj \ exclude |-> IF f = "class" THEN "dict" ELSE obj[f]]

\* variant: a pydantic model is dumped with all its fields
json_serializer_dump_all(obj) ==
    IF obj.class = "ChatKitDataStore" THEN JsonNull
    ELSE IF obj.class = "Client" THEN JsonNull
    ELSE IF obj.class \in Pydantic THEN model_dump(obj, {})
    ELSE JsonNull

\* json_serializer, the default= handler of json.dumps: None for the data
\* store and for the Supabase client, model_dump without thread, store,
\* request_context and _events for a pydantic model, None for anything else
json_serializer(obj) ==
    IF obj.class = "ChatKitDataStore" THEN JsonNull
    ELSE IF obj.class = "Client" THEN JsonNull
    ELSE IF obj.class \in Pydantic THEN model_dump(obj, Excluded)
    ELSE JsonNull

\* the encoder of json.dumps: null and dicts (TContext is one) are encoded
\* natively, field by field; any other value goes through default= first
RECURSIVE json_encode(_)
json_encode(obj) ==
    IF obj.class = "null" THEN obj
    ELSE IF obj.class \in {"dict", "TContext"}
    THEN [f \in DOMAIN obj |-> IF f = "class" THEN "dict" ELSE json_encode(obj[f])]
    ELSE json_encode(json_serializer(obj))

\* json.dumps(state_json, default=json_serializer); the interruption records
\* are plain data already
json_dumps(state_json) == [state_json EXCEPT !.context = json_encode(@)]

\* json.loads + RunState.from_json(agent, doc): a state with a stripped
\* context, fresh wrappers, and every restored interruption undecided
from_json(doc) ==
    [interruptions |-> [i \in 1..Len(doc.interruptions) |->
                           [id |-> PyStr("w_restored"),
                            agent |-> doc.interruptions[i].agent,
                            raw_item |-> doc.interruptions[i].raw_item]],
     approvals |-> [i \in 1..Len(doc.interruptions) |-> "pending"],
     context |-> "stripped"]

\* ------------------------------------------------------ run-state store
\* variant: the filter on user_id is left out
Matching_any_owner(rows, thread_id, user_id) ==
    SelectSeq(rows, LAMBDA r : r.thread_id = thread_id)

\* rows of the run_states table that .eq("thread_id").eq("user_id") selects
Matching(rows, thread_id, user_id) ==
    SelectSeq(rows, LAMBDA r : r.thread_id = thread_id /\ r.user_id = user_id)

NotMatching(rows, thread_id, user_id) ==
    SelectSeq(rows, LAMBDA r : ~(r.thread_id = thread_id /\ r.user_id = user_id))

ConvOutcomes == {"ok", "to_json_raises", "dumps_raises"}

\* variant: the insert is not preceded by the delete
save_run_state_append(rows, next_id, thread_id, state, ctx, conv) ==
    IF ctx.user_id = NoUser \/ conv # "ok" THEN [rows |-> rows, ret |-> 0]
    ELSE [rows |-> Append(rows, [id |-> next_id, thread_id |-> thread_id,
                                 user_id |-> ctx.user_id,
                                 state_data |-> json_dumps(to_json(state))]),
          ret |-> next_id]

\* save_run_state: [rows, ret]; ret = 0 is the None the function returns
\* when it has no user_id or its try block raised
save_run_state(rows, next_id, thread_id, state, ctx, conv) ==
    IF ctx.user_id = NoUser THEN [rows |-> rows, ret |-> 0]
    ELSE IF conv = "to_json_raises" THEN [rows |-> rows, ret |-> 0]
    ELSE LET deleted == NotMatching(rows, thread_id, ctx.user_id)
         IN IF conv = "dumps_raises" THEN [rows |-> deleted, ret |-> 0]
            ELSE [rows |-> Append(deleted,
                                  [id |-> next_id, thread_id |-> thread_id,
                                   user_id |-> ctx.user_id,
                                   state_data |-> json_dumps(to_json(state))]),
                  ret |-> next_id]

\* load_run_state: maybe_single() yields the row only when exactly one
\* matches (it raises on several, and the except returns None)
load_run_state(rows, thread_id, ctx) ==
    IF ctx.user_id = NoUser THEN NoState
    ELSE LET sel == Matching(rows, thread_id, ctx.user_id)
         IN IF Len(sel) = 1 THEN from_json(sel[1].state_data) ELSE NoState

\* variant: the delete leaves the table as it is
delete_run_state_noop(rows, thread_id, ctx) == rows

\* variant: with no row of the conversation, the oldest row of the table goes
delete_run_state_oldest(rows, thread_id, ctx) ==
    IF ctx.user_id = NoUser THEN rows
    ELSE IF Matching(rows, thread_id, ctx.user_id) = <<>>
    THEN (IF rows = <<>> THEN rows ELSE Tail(rows))
    ELSE NotMatching(rows, thread_id, ctx.user_id)

\* delete_run_state
delete_run_state(rows, thread_id, ctx) ==
    IF ctx.user_id = NoUser THEN rows
    ELSE NotMatching(rows, thread_id, ctx.user_id)

\* `if not state` / `if saved_state`
HasState(state) == state # NoState

\* -------------------------------------------------- interruption matcher
\* the loop of action(): the first interruption whose raw_item.call_id is
\* truthy and has the string form of interruption_id; 0 stands for None
\* variant: the loop compares the id of the wrapper, not raw_item.call_id
RECURSIVE find_matching_by_wrapper(_, _, _)
find_matching_by_wrapper(interruptions, interruption_id, i) ==
    IF i > Len(interruptions) THEN 0
    ELSE LET inter_id == interruptions[i].id
         IN IF Truthy(inter_id) /\ Str(inter_id) = Str(interruption_id)
            THEN i
            ELSE find_matching_by_wrapper(interruptions, interruption_id, i + 1)

RECURSIVE find_matching(_, _, _)
find_matching(interruptions, interruption_id, i) ==
    IF i > Len(interruptions) THEN 0
    ELSE LET inter_id == interruptions[i].raw_item.call_id
         IN IF Truthy(inter_id) /\ Str(inter_id) = Str(interruption_id)
            THEN i
            ELSE find_matching(interruptions, interruption_id, i + 1)

\* variant: with no interruption_id, fall back to the only open interruption
matching_interruption_guess(interruptions, interruption_id) ==
    IF ~Truthy(interruption_id)
    THEN (IF Len(interruptions) = 1 THEN 1 ELSE 0)
    ELSE find_matching(interruptions, interruption_id, 1)

\* action(), from the interruption_id check to the end of the matching loop:
\* a missing interruption_id matches nothing, whatever is open
matching_interruption(interruptions, interruption_id) ==
    IF ~Truthy(interruption_id) THEN 0
    ELSE find_matching(interruptions, interruption_id, 1)

\* state.approve(item) / state.reject(item): the status of that item only
\* variant: approving one interruption approves every open one
approve_all(state, i) ==
    [state EXCEPT !.approvals = [j \in 1..Len(state.interruptions) |-> "approved"]]

approve(state, i) == [state EXCEPT !.approvals[i] = "approved"]

\* variant: a reject verdict is applied as an approval
reject_approves(state, i) == [state EXCEPT !.approvals[i] = "approved"]

reject(state, i) == [state EXCEPT !.approvals[i] = "rejected"]

\* ------------------------------------------------------------- runtime
\* One execution pass of Runner.run_streamed, as the handlers observe it
\* after draining the stream: result.interruptions and the events streamed.
\* A resumed state runs its approved calls, skips its rejected ones and stops
\* again on those still undecided; only with none left does the agent go on
\* and possibly raise k new approval-gated calls.  tool_items are the items
\* the pass adds to the session for the decided calls: the result of a call
\* it ran, a rejection for a call it skipped.
Undecided(state) ==
    { i \in 1..Len(state.interruptions) : state.approvals[i] = "pending" }

RECURSIVE KeepUndecided(_, _)
KeepUndecided(state, i) ==
    IF i > Len(state.interruptions) THEN <<>>
    ELSE (IF state.approvals[i] = "pending"
          THEN << [state.interruptions[i] EXCEPT !.id = PyStr("w_live")] >>
          ELSE <<>>) \o KeepUndecided(state, i + 1)

NewCalls(first, k) ==
    [j \in 1..k |-> Interruption(CallId(first + j - 1), PyStr("w_live"))]

\* a stream event as the normalizer reads it: its class (type), the class
\* of its item (kind), the item id it carries, and the logical item it is
\* about (item: not visible to the code, used to state properties)
Event == [type |-> "thread.item.done", kind |-> "assistant_message",
          id |-> PyStr("msg_1"), item |-> 1]

run_streamed(state, first, k, n) ==
    [interruptions |-> IF Undecided(state) # {}
                       THEN KeepUndecided(state, 1)
                       ELSE NewCalls(first, k),
     tools_run |-> { state.interruptions[i].raw_item.call_id :
                       i \in { j \in 1..Len(state.interruptions) :
                                 state.approvals[j] = "approved" } },
     tool_items |-> { [call_id |-> state.interruptions[i].raw_item.call_id,
                       output |-> IF state.approvals[i] = "approved"
                                  THEN "result" ELSE "rejection"] :
                        i \in { j \in 1..Len(state.interruptions) :
                                  state.approvals[j] # "pending" } },
     events |-> [j \in 1..n |-> Event]]

NoResult == [interruptions |-> <<>>, tools_run |-> {}, tool_items |-> {},
             events |-> <<>>]

\* result.to_state(): the state of the pass, its interruptions undecided
to_state(res) ==
    [interruptions |-> res.interruptions,
     approvals |-> [i \in 1..Len(res.interruptions) |-> "pending"],
     context |-> "fresh"]

\* --------------------------------------------------- approval requests
\* respond(): render_approval_widget + approval_widget_copy_text, skipped
\* for an interruption whose raw_item has no call_id
respond_widget(interruption) ==
    [type |-> "approval", agent_name |-> interruption.agent,
     tool_name |-> interruption.raw_item.name,
     tool_arguments |-> interruption.raw_item.arguments,
     interruption_id |-> Str(interruption.raw_item.call_id),
     copy_agent |-> interruption.agent,
     copy_tool |-> interruption.raw_item.name,
     copy_arguments |-> interruption.raw_item.arguments]

RECURSIVE respond_widgets(_, _)
respond_widgets(interruptions, i) ==
    IF i > Len(interruptions) THEN <<>>
    ELSE (IF Truthy(interruptions[i].raw_item.call_id)
          THEN << respond_widget(interruptions[i]) >>
          ELSE <<>>) \o respond_widgets(interruptions, i + 1)

\* action(): the approval_widget dict and its copy_text ("Approve the use of
\* <tool> with arguments <arguments>": no agent), one per interruption
action_widget(interruption) ==
    [type |-> "approval", agent_name |-> interruption.agent,
     tool_name |-> interruption.raw_item.name,
     tool_arguments |-> interruption.raw_item.arguments,
     interruption_id |-> interruption.raw_item.call_id,
     copy_agent |-> "none",
     copy_tool |-> interruption.raw_item.name,
     copy_arguments |-> interruption.raw_item.arguments]

action_widgets(interruptions) ==
    [i \in 1..Len(interruptions) |-> action_widget(interruptions[i])]

\* ------------------------------------------------- session input callbacks
\* respond(), fresh turn: history_items + new_items
session_input_callback(history_items, new_items) == history_items \o new_items

\* respond(), saved state: history_items + new_items
resume_session_input_callback_respond(history_items, new_items) ==
    history_items \o new_items

\* action(): new_items
resume_session_input_callback(history_items, new_items) == new_items

\* the callback of the RunConfig a turn hands to Runner.run_streamed
run_config_callback(name, history_items, new_items) ==
    IF name = "session_input_callback"
    THEN session_input_callback(history_items, new_items)
    ELSE IF name = "resume_session_input_callback_respond"
    THEN resume_session_input_callback_respond(history_items, new_items)
    ELSE resume_session_input_callback(history_items, new_items)

\* ------------------------------------------------------ event normalizer
\* item.id == '__fake_id__' or not item.id or item.id == 'N/A'
IsPlaceholder(id) ==
    id = PyStr("__fake_id__") \/ ~Truthy(id) \/ id = PyStr("N/A")

\* store.generate_item_id: the n-th id of the pass
\* (cthi_<timestamp>_<random>, taken as unique)
generate_item_id(n) == PyStr("cthi_" \o ToString(n))

\* the locals of one normalizer run: item_id_map (original id -> generated
\* id), done_item_ids, the number of ids generated, and the events read so far
NoNorm == [item_id_map |-> [k \in {} |-> PyNone], done_item_ids |-> {},
           generated |-> 0, seen |-> <<>>]

\* variant: the generated id is not recorded
remember_nothing(item_id_map, original_id, id) == item_id_map

\* item_id_map[original_id] = item.id
remember(item_id_map, original_id, id) ==
    [k \in DOMAIN item_id_map \cup {original_id} |->
        IF k = original_id THEN id ELSE item_id_map[k]]

\* the id repair of an added or done event: a placeholder id is replaced by
\* the id recorded for that original id, or by a generated one that is then
\* recorded under the original id
fix_item_id(norm, event) ==
    IF IsPlaceholder(event.id)
    THEN IF event.id \in DOMAIN norm.item_id_map
         THEN [norm |-> norm,
               event |-> [event EXCEPT !.id = norm.item_id_map[event.id]]]
         ELSE LET id == generate_item_id(norm.generated + 1)
              IN [norm |-> [norm EXCEPT
                              !.item_id_map = remember(@, event.id, id),
                              !.generated = @ + 1],
                  event |-> [event EXCEPT !.id = id]]
    ELSE [norm |-> norm, event |-> event]

\* one iteration of the loop of fix_chatkit_event_ids (respond) and of its
\* copy in action(): [norm, fwd], fwd the events yielded (none or one).
\* dedup is FALSE for the copy of src/src/api/main.py, which has no
\* done_item_ids.
fix_chatkit_event_ids(norm, event, dedup) ==
    LET read == [norm EXCEPT !.seen = Append(@, event)]
    IN IF event.type = "thread.item.added"
       THEN LET r == fix_item_id(read, event)
            IN [norm |-> r.norm, fwd |-> << r.event >>]
       ELSE IF event.type = "thread.item.done"
       THEN LET r == fix_item_id(read, event)
                final_item_id == r.event.id
            IN IF dedup /\ event.kind = "assistant_message" /\ Truthy(final_item_id)
               THEN IF final_item_id \in r.norm.done_item_ids
                    THEN [norm |-> r.norm, fwd |-> <<>>]
                    ELSE [norm |-> [r.norm EXCEPT !.done_item_ids =
                                                     @ \cup {final_item_id}],
                          fwd |-> << r.event >>]
               ELSE [norm |-> r.norm, fwd |-> << r.event >>]
       ELSE [norm |-> read, fwd |-> << event >>]

\* variant: the copy in action() skips a repeated done event of any item
action_event_ids_any_item(norm, event) ==
    LET read == [norm EXCEPT !.seen = Append(@, event)]
        r == IF event.type \in {"thread.item.added", "thread.item.done"}
             THEN fix_item_id(read, event)
             ELSE [norm |-> read, event |-> event]
    IN IF event.type = "thread.item.done" /\ Truthy(r.event.id)
       THEN IF r.event.id \in r.norm.done_item_ids
            THEN [norm |-> r.norm, fwd |-> <<>>]
            ELSE [norm |-> [r.norm EXCEPT !.done_item_ids = @ \cup {r.event.id}],
                  fwd |-> << r.event >>]
       ELSE [norm |-> r.norm, fwd |-> << r.event >>]

\* one iteration of the loop inlined in action(): the id repair of an added
\* event, the id repair of a done event, then for the done event of an
\* assistant message with an id the `continue` on a final id already in
\* done_item_ids
action_event_ids(norm, event) ==
    LET read == [norm EXCEPT !.seen = Append(@, event)]
        added == IF event.type = "thread.item.added"
                 THEN fix_item_id(read, event)
                 ELSE [norm |-> read, event |-> event]
        done == IF event.type = "thread.item.done"
                THEN fix_item_id(added.norm, added.event)
                ELSE added
    IN IF event.type = "thread.item.done" /\ event.kind = "assistant_message"
       THEN LET final_item_id == done.event.id
            IN IF Truthy(final_item_id)
               THEN IF final_item_id \in done.norm.done_item_ids
                    THEN [norm |-> done.norm, fwd |-> <<>>]
                    ELSE [norm |-> [done.norm EXCEPT !.done_item_ids =
                                                        @ \cup {final_item_id}],
                          fwd |-> << done.event >>]
               ELSE [norm |-> done.norm, fwd |-> << done.event >>]
       ELSE [norm |-> done.norm, fwd |-> << done.event >>]

\* the normalizer of each handler: the loop inlined in action(),
\* fix_chatkit_event_ids of respond(), and the copy of src/src/api/main.py,
\* which has no done_item_ids
normalize(kind, norm, event) ==
    IF kind = "action" THEN action_event_ids(norm, event)
    ELSE fix_chatkit_event_ids(norm, event, kind # "respond_main")

\* variant: the yielded events reach the consumer newest first
yield_events_first(yielded, fwd) == fwd \o yielded

\* variant: an event is held back while another is already with the consumer
yield_events_held(yielded, fwd) == IF yielded = <<>> THEN fwd ELSE yielded

\* `yield event`: the events reach the consumer in the order yielded
yield_events(yielded, fwd) == yielded \o fwd

\* ---------------------------------------------------------------- state
\* turn.matching is the position of the matched interruption (0: none);
\* turn.had is the number of rows the conversation had when save_run_state was
\* called and turn.saved the row id save_run_state returned (0: None);
\* turn.answers tells that the decision of the turn carries the interruption_id
\* of an approval request that the turn just before it emitted on the same
\* conversation for the same context
VARIABLES
    run_states,    \* rows of the run_states table, in insertion order
    next_row_id,   \* id the table gives to the next inserted row
    next_call,     \* number of the next tool call the runtime mints
    pc,            \* "idle": no turn in progress; "streaming": a pass is being drained
    turn,          \* the turn in progress, or the last one: its inputs and locals
    state,         \* the RunState handed to the runtime by the turn (or NoState)
    result,        \* the RunResultStreaming of the turn's pass
    out,           \* events the turn has yielded to its consumer so far
    norm,          \* locals of the normalizer of the pass being drained
    transcript     \* session items of the decided tool calls: result or rejection

vars == <<run_states, next_row_id, next_call, pc, turn, state, result, out, norm,
          transcript>>

NoTurn ==
    [kind |-> "none", thread_id |-> "none",
     ctx |-> [user_id |-> NoUser, agent_id |-> NoAgent],
     action_type |-> "none", approval_action |-> "none", interruption_id |-> PyNone,
     new_input |-> FALSE, run_input |-> "none", callback |-> "none",
     matching |-> 0, had |-> 0, saved |-> 0, answers |-> FALSE,
     user_message |-> FALSE, outcome |-> "none"]

Init ==
    /\ run_states = <<>>
    /\ next_row_id = 1
    /\ next_call = 1
    /\ pc = "idle"
    /\ turn = NoTurn
    /\ state = NoState
    /\ result = NoResult
    /\ out = <<>>
    /\ norm = NoNorm
    /\ transcript = {}

\* variant: a turn that ends early drops the run state of its conversation
EndEarly_dropping(t, st, how) ==
    /\ turn' = [t EXCEPT !.outcome = how]
    /\ state' = st
    /\ result' = NoResult
    /\ out' = <<>>
    /\ norm' = NoNorm
    /\ pc' = "idle"
    /\ run_states' = delete_run_state(run_states, t.thread_id, t.ctx)
    /\ UNCHANGED <<next_row_id, next_call, transcript>>

\* a turn that ends before any pass: it returns or raises with nothing
\* yielded; st is the run state it had loaded by then
EndEarly(t, st, how) ==
    /\ turn' = [t EXCEPT !.outcome = how]
    /\ state' = st
    /\ result' = NoResult
    /\ out' = <<>>
    /\ norm' = NoNorm
    /\ pc' = "idle"
    /\ UNCHANGED <<run_states, next_row_id, next_call, transcript>>

\* Runner.run_streamed(agent, input, ...): the pass starts
\* (k new approval-gated calls, n events: chosen by the runtime)
Invoke(t, st, rows) ==
    \E k \in 0..MaxPar, n \in 0..MaxEvents :
    /\ next_call + k - 1 <= MaxCalls
    /\ (Undecided(st) # {} => k = 0)
    /\ turn' = [t EXCEPT !.outcome = "running"]
    /\ state' = st
    /\ result' = run_streamed(st, next_call, k, n)
    /\ transcript' = transcript \cup run_streamed(st, next_call, k, n).tool_items
    /\ next_call' = next_call + k
    /\ run_states' = rows
    /\ out' = <<>>
    /\ norm' = NoNorm
    /\ pc' = "streaming"
    /\ UNCHANGED next_row_id

\* -------------------------------------------------------------- respond
\* variant: on the resume path the new user message is handed over as well
respond_run_input_with_message(saved_state, agent_input) ==
    IF HasState(saved_state)
    THEN [run_input |-> "saved_state",
          callback |-> "resume_session_input_callback_respond",
          user_message |-> agent_input]
    ELSE [run_input |-> "agent_input", callback |-> "session_input_callback",
          user_message |-> agent_input]

\* what respond() hands to Runner.run_streamed: the saved state with the
\* resume RunConfig when one was loaded, else agent_input (the converted
\* user message, or [] without one) with the standard RunConfig
respond_run_input(saved_state, agent_input) ==
    IF HasState(saved_state)
    THEN [run_input |-> "saved_state",
          callback |-> "resume_session_input_callback_respond",
          user_message |-> FALSE]
    ELSE [run_input |-> "agent_input", callback |-> "session_input_callback",
          user_message |-> agent_input]

\* respond() up to and including Runner.run_streamed
RespondPass(thread_id, ctx, new_input) ==
    /\ pc = "idle"
    /\ LET t == [NoTurn EXCEPT !.kind = "respond", !.thread_id = thread_id,
                               !.ctx = ctx, !.new_input = new_input]
       IN IF ctx.agent_id = NoAgent THEN EndEarly(t, NoState, "raise_400")
          ELSE IF load_agent_from_database(ctx.agent_id, ctx) # "agent"
          THEN EndEarly(t, NoState, load_agent_from_database(ctx.agent_id, ctx))
          ELSE LET saved_state == load_run_state(run_states, thread_id, ctx)
                   handed == respond_run_input(saved_state, new_input)
               IN Invoke([t EXCEPT !.run_input = handed.run_input,
                                   !.callback = handed.callback,
                                   !.user_message = handed.user_message],
                         saved_state, run_states)

\* a respond() turn, while the table still hands out row ids within MaxRows
RespondBegin(thread_id, ctx, new_input) ==
    /\ next_row_id <= MaxRows
    /\ RespondPass(thread_id, ctx, new_input)

\* the consumer pulls, the normalizer reads the next event of the pass and
\* the turn yields what the normalizer lets through
Forward ==
    /\ pc = "streaming"
    /\ result.events # <<>>
    /\ LET r == normalize(turn.kind, norm, Head(result.events))
       IN /\ norm' = r.norm
          /\ out' = yield_events(out, r.fwd)
    /\ result' = [result EXCEPT !.events = Tail(result.events)]
    /\ UNCHANGED <<run_states, next_row_id, next_call, pc, turn, state, transcript>>

\* the consumer stops reading before the stream has ended: the generator is
\* closed where it is suspended, and the code after the loop does not run
Cancel ==
    /\ pc = "streaming"
    /\ result.events # <<>>
    /\ turn' = [turn EXCEPT !.outcome = "cancelled"]
    /\ pc' = "idle"
    /\ UNCHANGED <<run_states, next_row_id, next_call, state, result, out, norm,
                   transcript>>

\* variant: the code after the loop does not wait for the end of the stream
Drained_anytime == TRUE

\* the `async for` over the normalized stream has ended
Drained == result.events = <<>>

\* respond() after the stream is drained
RespondFinish(conv) ==
    /\ pc = "streaming"
    /\ turn.kind = "respond"
    /\ Drained
    /\ IF Len(result.interruptions) > 0
       THEN LET saved == save_run_state(run_states, next_row_id, turn.thread_id,
                                        to_state(result), turn.ctx, conv)
            IN /\ run_states' = saved.rows
               /\ next_row_id' = IF saved.ret # 0 THEN next_row_id + 1 ELSE next_row_id
               /\ out' = out \o respond_widgets(result.interruptions, 1)
               /\ turn' = [turn EXCEPT !.outcome = "returned", !.saved = saved.ret,
                                       !.had = Len(Matching(run_states, turn.thread_id,
                                                            turn.ctx.user_id))]
       ELSE /\ conv = "ok"
            /\ run_states' = delete_run_state(run_states, turn.thread_id, turn.ctx)
            /\ out' = out
            /\ turn' = [turn EXCEPT !.outcome = "returned"]
            /\ UNCHANGED next_row_id
    /\ pc' = "idle"
    /\ UNCHANGED <<next_call, state, result, norm, transcript>>

\* --------------------------------------------------------------- action
ApprovalActions == {"approve", "reject", "other"}

\* interruption_id values a client can send: absent, empty, a call id (as a
\* string or as a number)
DecisionIds ==
    {PyNone, PyStr(""), PyInt("1")} \cup {CallId(c) : c \in 1..MaxCalls}

\* the actions a client can post: a tool_approval with its payload, or an
\* action of another type
Actions ==
    [type : {"tool_approval"}, action : ApprovalActions, interruption_id : DecisionIds]
    \cup {[type |-> "other", action |-> "other", interruption_id |-> PyNone]}

\* the actions posted with each request context: every action with the
\* context that reaches the payload checks (a user and its own agent), and
\* one tool_approval and one other action with each context that action()
\* leaves before it looks at interruption_id or the verdict
ActionRequests ==
    { r \in [ctx : Contexts, action : Actions] :
        \/ load_agent_from_database(r.ctx.agent_id, r.ctx) = "agent"
        \/ r.action.type = "other"
        \/ (r.action.action = "approve" /\ r.action.interruption_id = CallId(1)) }

\* the context substitution of action(): state._context.context = agent_context
replace_context(st) == [st EXCEPT !.context = "fresh"]

\* action() up to and including Runner.run_streamed
ActionPass(thread_id, ctx, action) ==
    /\ pc = "idle"
    /\ LET action_type == action.type
           approval_action == action.action
           interruption_id == action.interruption_id
           t == [NoTurn EXCEPT !.kind = "action", !.thread_id = thread_id,
                               !.ctx = ctx, !.action_type = action_type,
                               !.approval_action = approval_action,
                               !.interruption_id = interruption_id,
                               !.answers =
                                  /\ turn.outcome = "returned"
                                  /\ turn.thread_id = thread_id /\ turn.ctx = ctx
                                  /\ \E j \in 1..Len(out) :
                                        /\ out[j].type = "approval"
                                        /\ out[j].interruption_id = interruption_id]
       IN IF action_type # "tool_approval"
          THEN \* `result` is read after the if-block without having been bound
               EndEarly(t, NoState, "raise_UnboundLocalError")
          ELSE IF ctx.agent_id = NoAgent THEN EndEarly(t, NoState, "returned")
          ELSE IF load_agent_from_database(ctx.agent_id, ctx) # "agent"
          THEN EndEarly(t, NoState, load_agent_from_database(ctx.agent_id, ctx))
          ELSE LET loaded == load_run_state(run_states, thread_id, ctx)
                   m == matching_interruption(loaded.interruptions, interruption_id)
               IN IF ~HasState(loaded) THEN EndEarly(t, NoState, "returned")
                  ELSE IF m = 0 THEN EndEarly(t, loaded, "returned")
                  ELSE IF approval_action \notin {"approve", "reject"}
                  THEN EndEarly([t EXCEPT !.matching = m], loaded, "returned")
                  ELSE LET decided == IF approval_action = "approve"
                                      THEN approve(loaded, m)
                                      ELSE reject(loaded, m)
                       IN Invoke([t EXCEPT !.matching = m,
                                           !.run_input = "saved_state",
                                           !.callback =
                                              "resume_session_input_callback"],
                                 replace_context(decided),
                                 delete_run_state(run_states, thread_id, ctx))

\* an action() turn, while the table still hands out row ids within MaxRows
ActionBegin(thread_id, ctx, action) ==
    /\ next_row_id <= MaxRows
    /\ ActionPass(thread_id, ctx, action)

\* action() after the stream is drained
ActionFinish(conv) ==
    /\ pc = "streaming"
    /\ turn.kind = "action"
    /\ Drained
    /\ IF Len(result.interruptions) > 0
       THEN LET saved == save_run_state(run_states, next_row_id, turn.thread_id,
                                        to_state(result), turn.ctx, conv)
            IN /\ run_states' = saved.rows
               /\ next_row_id' = IF saved.ret # 0 THEN next_row_id + 1 ELSE next_row_id
               /\ out' = out \o action_widgets(result.interruptions)
               /\ turn' = [turn EXCEPT !.outcome = "returned", !.saved = saved.ret,
                                       !.had = Len(Matching(run_states, turn.thread_id,
                                                            turn.ctx.user_id))]
       ELSE /\ conv = "ok"
            /\ turn' = [turn EXCEPT !.outcome = "returned"]
            /\ UNCHANGED <<run_states, next_row_id, out>>
    /\ pc' = "idle"
    /\ UNCHANGED <<next_call, state, result, norm, transcript>>

Next ==
    \/ \E thread_id \in Threads, ctx \in Contexts, new_input \in BOOLEAN :
          RespondBegin(thread_id, ctx, new_input)
    \/ \E thread_id \in Threads, r \in ActionRequests :
          ActionBegin(thread_id, r.ctx, r.action)
    \/ Forward
    \/ Cancel
    \/ \E conv \in ConvOutcomes : RespondFinish(conv)
    \/ \E conv \in ConvOutcomes : ActionFinish(conv)

Spec == Init /\ [][Next]_vars

\* ------------------------------------------- the matcher on its own inputs
\* raw call ids and wrapper ids an interruption list can carry
MatchCallIds == {PyNone, PyStr(""), CallId(1), CallId(2)}

MatchWrapperIds == {CallId(1), PyStr("w")}

MatchItems == { Interruption(c, w) : c \in MatchCallIds, w \in MatchWrapperIds }

MatchLists == UNION { [1..m -> MatchItems] : m \in 0..MaxInts }

InitMatch ==
    /\ run_states = <<>>
    /\ next_row_id = 1
    /\ next_call = 1
    /\ pc = "match"
    /\ \E interruption_id \in DecisionIds :
          turn = [NoTurn EXCEPT !.kind = "action", !.action_type = "tool_approval",
                                !.interruption_id = interruption_id]
    /\ \E interruptions \in MatchLists :
          state = [interruptions |-> interruptions,
                   approvals |-> [i \in 1..Len(interruptions) |-> "pending"],
                   context |-> "stripped"]
    /\ result = NoResult
    /\ out = <<>>
    /\ norm = NoNorm
    /\ transcript = {}

\* the matching step of action() on the loaded state
MatchStep ==
    /\ pc = "match"
    /\ turn' = [turn EXCEPT !.matching =
                    matching_interruption(state.interruptions, turn.interruption_id)]
    /\ pc' = "matched"
    /\ UNCHANGED <<run_states, next_row_id, next_call, state, result, out, norm,
                   transcript>>

NextMatch == MatchStep

SpecMatch == InitMatch /\ [][NextMatch]_vars

\* --------------------------------------------- the store under any caller
\* run states a caller can hand to save_run_state
StoreStates ==
    { to_state([NoResult EXCEPT !.interruptions = NewCalls(c, 1)]) : c \in 1..MaxDocs }
    \cup { [to_state([NoResult EXCEPT !.interruptions = NewCalls(1, 2)])
              EXCEPT !.context = "stripped"] }

StoreSave(thread_id, ctx, st, conv) ==
    /\ pc = "idle"
    /\ next_row_id <= MaxSaves
    /\ LET saved == save_run_state(run_states, next_row_id, thread_id, st, ctx, conv)
       IN /\ run_states' = saved.rows
          /\ next_row_id' = IF saved.ret # 0 THEN next_row_id + 1 ELSE next_row_id
          /\ turn' = [NoTurn EXCEPT !.kind = "save_run_state", !.thread_id = thread_id,
                                    !.ctx = ctx, !.saved = saved.ret,
                                    !.had = Len(Matching(run_states, thread_id,
                                                         ctx.user_id))]
    /\ state' = st
    /\ UNCHANGED <<next_call, pc, result, out, norm, transcript>>

StoreDelete(thread_id, ctx) ==
    /\ pc = "idle"
    /\ run_states' = delete_run_state(run_states, thread_id, ctx)
    /\ turn' = [NoTurn EXCEPT !.kind = "delete_run_state", !.thread_id = thread_id,
                              !.ctx = ctx,
                              !.had = Len(Matching(run_states, thread_id, ctx.user_id))]
    /\ state' = NoState
    /\ UNCHANGED <<next_row_id, next_call, pc, result, out, norm, transcript>>

NextStore ==
    \/ \E thread_id \in Threads, ctx \in Contexts, st \in StoreStates,
          conv \in ConvOutcomes : StoreSave(thread_id, ctx, st, conv)
    \/ \E thread_id \in Threads, ctx \in Contexts : StoreDelete(thread_id, ctx)

SpecStore == Init /\ [][NextStore]_vars

\* ------------------------------------------- the store under two owners
\* the callers of the store (which reads user_id only): the owner, a
\* second user, and a request without user id
StoreContexts ==
    {[user_id |-> "u1", agent_id |-> "a1"], [user_id |-> "u2", agent_id |-> "a1"],
     [user_id |-> NoUser, agent_id |-> "a1"]}

NextOwners ==
    \/ \E thread_id \in Threads, ctx \in StoreContexts, st \in StoreStates,
          conv \in ConvOutcomes :
            /\ next_row_id <= MaxOwnerSaves
            /\ StoreSave(thread_id, ctx, st, conv)
    \/ \E thread_id \in Threads, ctx \in StoreContexts : StoreDelete(thread_id, ctx)

SpecOwners == Init /\ [][NextOwners]_vars

\* ------------------------------------------ the normalizer on its own input
\* the logical items of a pass: each has one class and arrives with one id,
\* a placeholder or its own real id
Items == {1, 2}

ItemKinds == {"assistant_message", "client_tool_call"}

EventTypes == {"thread.item.added", "thread.item.done", "thread.item.updated"}

IncomingIds(i) ==
    {PyStr("__fake_id__"), PyStr(""), PyStr("N/A"), PyStr("msg_" \o ToString(i))}

\* the streams stream_agent_response can hand to the normalizer: up to
\* MaxStream events, each an added, done or updated event of one of the items
Streams ==
    { [j \in 1..Len(es) |-> [type |-> es[j][1], kind |-> kinds[es[j][2]],
                              id |-> ids[es[j][2]], item |-> es[j][2]]] :
        es \in UNION { [1..n -> EventTypes \X Items] : n \in 0..MaxStream },
        kinds \in [Items -> ItemKinds],
        ids \in { f \in [Items -> UNION { IncomingIds(i) : i \in Items }] :
                    \A i \in Items : f[i] \in IncomingIds(i) } }

\* the three copies of the normalizer: respond() and action() of
\* src/api/chatkit_server.py, respond() of src/src/api/main.py
Normalizers == {"respond", "action", "respond_main"}

InitNorm ==
    /\ run_states = <<>>
    /\ next_row_id = 1
    /\ next_call = 1
    /\ pc = "streaming"
    /\ \E kind \in Normalizers :
          turn = [NoTurn EXCEPT !.kind = kind, !.outcome = "running"]
    /\ state = NoState
    /\ \E events \in Streams : result = [NoResult EXCEPT !.events = events]
    /\ out = <<>>
    /\ norm = NoNorm
    /\ transcript = {}

NextNorm == Forward

SpecNorm == InitNorm /\ [][NextNorm]_vars

\* ------------------------------------------------- the transcript store
\* Here out is the list of items posted to /chatkit/threads/{id}/items,
\* next_call counts the ids generate_item_id has produced, and turn is the
\* last call of add_thread_item.
NoContext == [missing |-> TRUE]

\* a thread item as add_thread_item reads it: whether it has an id
\* attribute, the id, and its class
ItemIds ==
    {PyNone, PyStr(""), PyStr("__fake_id__"), PyStr("N/A"), PyStr("msg_1"),
     PyStr("msg_2")}

ThreadItems ==
    [has_id : {TRUE}, id : ItemIds, kind : ItemKinds]
    \cup [has_id : {FALSE}, id : {PyNone}, kind : ItemKinds]

\* the body posted for an item
Posted(thread_id, id, item, next_index) ==
    [thread_id |-> thread_id, id |-> id, type |-> item.kind,
     item_index |-> next_index]

\* /chatkit/threads/{thread_id}/next_index
next_index(posted, thread_id) ==
    Len(SelectSeq(posted, LAMBDA p : p.thread_id = thread_id)) + 1

\* variant: the item is posted under the id it arrived with
add_thread_item_as_given(posted, generated, thread_id, item, context) ==
    IF context = NoContext \/ context.user_id = NoUser
    THEN [posted |-> posted, generated |-> generated, outcome |-> "raise_400"]
    ELSE LET item_id == IF item.has_id THEN item.id ELSE PyStr("N/A")
         IN [posted |-> Append(posted, Posted(thread_id, item_id, item,
                                               next_index(posted, thread_id))),
             generated |-> generated, outcome |-> "returned"]

\* add_thread_item: HTTPException 400 without context or user_id; an item
\* whose id is '__fake_id__', falsy or 'N/A' (also when it has no id
\* attribute) gets item.id = generate_item_id(...); the item is posted
\* under item.id
add_thread_item(posted, generated, thread_id, item, context) ==
    IF context = NoContext \/ context.user_id = NoUser
    THEN [posted |-> posted, generated |-> generated, outcome |-> "raise_400"]
    ELSE LET item_id == IF item.has_id THEN item.id ELSE PyStr("N/A")
             fix == IsPlaceholder(item_id)
             id == IF fix THEN generate_item_id(generated + 1) ELSE item.id
         IN [posted |-> Append(posted, Posted(thread_id, id, item,
                                               next_index(posted, thread_id))),
             generated |-> IF fix THEN generated + 1 ELSE generated,
             outcome |-> "returned"]

\* the calls: every item with the owner's context, one item with a missing
\* context and with a context without user id
ItemRequests ==
    { r \in [thread_id : Threads, item : ThreadItems,
              context : {Owner, NoContext, [user_id |-> NoUser, agent_id |-> "a1"]}] :
        r.context = Owner \/ (r.item.id = PyStr("msg_1") /\ r.item.kind = "assistant_message") }

InitItems ==
    /\ run_states = <<>>
    /\ next_row_id = 1
    /\ next_call = 0
    /\ pc = "idle"
    /\ turn = [kind |-> "none"]
    /\ state = NoState
    /\ result = NoResult
    /\ out = <<>>
    /\ norm = NoNorm
    /\ transcript = {}

AddThreadItem(r) ==
    /\ Len(out) < MaxItems
    /\ LET a == add_thread_item(out, next_call, r.thread_id, r.item, r.context)
       IN /\ out' = a.posted
          /\ next_call' = a.generated
          /\ turn' = [kind |-> "add_thread_item", thread_id |-> r.thread_id,
                      item |-> r.item, context |-> r.context, outcome |-> a.outcome]
    /\ UNCHANGED <<run_states, next_row_id, pc, state, result, norm, transcript>>

NextItems == \E r \in ItemRequests : AddThreadItem(r)

SpecItems == InitItems /\ [][NextItems]_vars

\* ------------------------------------------------- the session wrapper
\* FixedIdSession.add_items.  An id text is held as its pieces, the first
\* being its prefix up to and including the underscore (if it has one), so
\* that str.startswith can be computed: "msg_1" is <<"msg_", "1">>.
Text(pieces) == [t |-> "str", s |-> pieces]

\* str(original_id)
StrOf(id) == IF id.t = "none" THEN <<"None">> ELSE id.s

\* str(original_id).startswith(prefix)
startswith(id, prefix) == StrOf(id) # <<>> /\ StrOf(id)[1] = prefix

SessionIds ==
    {PyNone, Text(<<"__fake_id__">>), Text(<<"FAKE_ID">>), Text(<<"N/A">>),
     Text(<<>>), Text(<<"msg_", "1">>), Text(<<"fc_", "1">>),
     Text(<<"call_", "1">>)}

\* item.get("type", "unknown")
SessionTypes ==
    {"function_call", "function_call_output", "function_call_result", "message",
     "unknown"}

SessionItems == [type : SessionTypes, id : SessionIds, status : {"completed"}]

Batches == UNION { [1..n -> SessionItems] : n \in 0..MaxBatch }

\* f"{prefix}_{secrets.token_hex(16)}": the n-th token of the call
token_id(prefix, n) == Text(<<prefix \o "_", "hex", ToString(n)>>)

\* the prefix the item type calls for
prefix_of(item_type) ==
    IF item_type \in {"function_call", "function_call_output", "function_call_result"}
    THEN "fc" ELSE "msg"

\* variant: the type of the item is not consulted
needs_id_unless_prefixed(item) ==
    \/ item.id \in {Text(<<"__fake_id__">>), Text(<<"FAKE_ID">>), PyNone, Text(<<"N/A">>)}
    \/ ~startswith(item.id, "msg_") /\ ~startswith(item.id, "fc_")

\* whether the id of the item is replaced by a generated one
needs_id(item) ==
    LET original_id == item.id
        prefix == prefix_of(item.type)
    IN IF original_id \in {Text(<<"__fake_id__">>), Text(<<"FAKE_ID">>), PyNone,
                            Text(<<"N/A">>)}
       THEN TRUE
       ELSE IF ~startswith(original_id, "msg_") /\ ~startswith(original_id, "fc_")
       THEN TRUE
       ELSE (prefix = "fc" /\ ~startswith(original_id, "fc_"))
            \/ (prefix = "msg" /\ ~startswith(original_id, "msg_"))

\* the loop over the items: cleaned_item is the item without its status,
\* with the id kept or replaced; n tokens have been drawn so far
RECURSIVE fix_items(_, _, _)
fix_items(items, i, n) ==
    IF i > Len(items) THEN <<>>
    ELSE IF needs_id(items[i])
    THEN << [type |-> items[i].type,
             id |-> token_id(prefix_of(items[i].type), n + 1)] >>
         \o fix_items(items, i + 1, n + 1)
    ELSE << [type |-> items[i].type, id |-> items[i].id] >>
         \o fix_items(items, i + 1, n)

\* add_items: the upstream calls after it (none for an empty list)
add_items(upstream, items) ==
    IF items = <<>> THEN upstream
    ELSE Append(upstream, fix_items(items, 1, 0))

InitSession ==
    /\ run_states = <<>>
    /\ next_row_id = 1
    /\ next_call = 1
    /\ pc = "start"
    /\ \E items \in Batches : turn = [kind |-> "add_items", items |-> items]
    /\ state = NoState
    /\ result = NoResult
    /\ out = <<>>
    /\ norm = NoNorm
    /\ transcript = {}

AddItems ==
    /\ pc = "start"
    /\ out' = add_items(out, turn.items)
    /\ pc' = "done"
    /\ UNCHANGED <<run_states, next_row_id, next_call, turn, state, result, norm,
                   transcript>>

NextSession == AddItems

SpecSession == InitSession /\ [][NextSession]_vars

\* ------------------------------------------- client tool output requests
\* MyChatKitServer._process_streaming_impl for ThreadsAddClientToolOutputReq,
\* over the thread items ChatKitDataStore keeps upstream (oldest first).
DEFAULT_PAGE_SIZE == MaxPage

UserMessage == "chatkit.user_message"
AssistantMessage == "chatkit.assistant_message"
ClientToolCall == "chatkit.client_tool_call"

Dict(text) == [t |-> "dict", s |-> text]

\* request.params.result
ToolResults == {Dict("ok"), PyStr("done"), PyNone}

\* json.dumps of a dict
dumps(d) == PyStr("{" \o d.s \o "}")

\* json.loads of a stored output; text that is no JSON is kept as it is
loads(x) ==
    IF x.t = "str" /\ \E d \in ToolResults : d.t = "dict" /\ x = dumps(d)
    THEN CHOOSE d \in ToolResults : d.t = "dict" /\ x = dumps(d)
    ELSE x

ItemShapes ==
    {[type |-> UserMessage, status |-> "none", output |-> PyNone],
     [type |-> AssistantMessage, status |-> "none", output |-> PyNone],
     [type |-> ClientToolCall, status |-> "pending", output |-> PyNone],
     [type |-> ClientToolCall, status |-> "completed", output |-> PyStr("old")]}

\* the items of a thread, each under the id of its position
StoredThreads ==
    UNION { { [i \in 1..n |->
                 [id |-> i, type |-> shape[i].type, status |-> shape[i].status,
                  output |-> shape[i].output]] : shape \in [1..n -> ItemShapes] }
            : n \in 0..MaxThreadItems }

\* _deserialize_thread_item: a stored output that is JSON text is parsed
deserialize_thread_item(item_data) ==
    IF item_data.type = ClientToolCall
    THEN [item_data EXCEPT !.output = IF Truthy(@) /\ @.t = "str" THEN loads(@) ELSE @]
    ELSE item_data

\* _serialize_thread_item: an output that is a non-empty dict is dumped
serialize_thread_item(item) ==
    IF item.type = ClientToolCall
    THEN [item EXCEPT !.output = IF Truthy(@) /\ @.t = "dict" THEN dumps(@) ELSE @]
    ELSE item

\* variant: the page is counted from the oldest item
load_thread_items_asc(upstream, limit, order) ==
    [i \in 1..(IF Len(upstream) < limit THEN Len(upstream) ELSE limit) |->
        deserialize_thread_item(upstream[i])]

\* load_thread_items(thread.id, None, limit, order): one page of the list
load_thread_items(upstream, limit, order) ==
    LET n == IF Len(upstream) < limit THEN Len(upstream) ELSE limit
    IN [i \in 1..n |->
          deserialize_thread_item(
              upstream[IF order = "desc" THEN Len(upstream) - i + 1 ELSE i])]

\* save_item: the item under item.id is put as serialised
save_item(upstream, item) ==
    [i \in 1..Len(upstream) |->
        IF upstream[i].id = item.id THEN serialize_thread_item(item) ELSE upstream[i]]

\* delete_thread_item
delete_thread_item(upstream, item_id) ==
    SelectSeq(upstream, LAMBDA it : it.id # item_id)

IsPending(item) == item.type = ClientToolCall /\ item.status = "pending"

NoToolCall == [id |-> 0]

\* next((item for item in items.data if ... pending), None)
pending_tool_call(data) ==
    IF \E i \in 1..Len(data) : IsPending(data[i])
    THEN data[CHOOSE i \in 1..Len(data) :
                  /\ IsPending(data[i])
                  /\ \A j \in 1..(i - 1) : ~IsPending(data[j])]
    ELSE NoToolCall

\* _cleanup_pending_client_tool_call: every tool call still pending on the
\* newest page is deleted
cleanup_pending_client_tool_call(upstream) ==
    LET data == load_thread_items(upstream, DEFAULT_PAGE_SIZE, "desc")
    IN SelectSeq(upstream,
                 LAMBDA it : ~\E i \in 1..Len(data) :
                                  data[i].id = it.id /\ IsPending(data[i]))

InitTools ==
    /\ run_states = <<>>
    /\ next_row_id = 1
    /\ next_call = 1
    /\ pc = "start"
    /\ \E items \in StoredThreads :
          /\ out = items
          /\ turn = [kind |-> "add_client_tool_output", items |-> items,
                      supplied |-> PyNone, tool_call |-> 0, responded |-> FALSE]
    /\ state = NoState
    /\ result = NoResult
    /\ norm = NoNorm
    /\ transcript = {}

\* the request up to the call of respond: load, pick, complete, save, clean
\* up; or the ValueError
ToolOutputBegin(supplied) ==
    /\ pc = "start"
    /\ LET items == load_thread_items(out, DEFAULT_PAGE_SIZE, "desc")
           tool_call == pending_tool_call(items)
       IN IF tool_call = NoToolCall
          THEN /\ pc' = "failed"
               /\ turn' = [turn EXCEPT !.supplied = supplied]
               /\ out' = out
          ELSE /\ pc' = "responding"
               /\ turn' = [turn EXCEPT !.supplied = supplied,
                                        !.tool_call = tool_call.id]
               /\ out' = cleanup_pending_client_tool_call(
                             save_item(out, [tool_call EXCEPT !.output = supplied,
                                                              !.status = "completed"]))
    /\ UNCHANGED <<run_states, next_row_id, next_call, state, result, norm,
                   transcript>>

\* self.respond(thread, None, context) is run by _process_events
ToolOutputRespond ==
    /\ pc = "responding"
    /\ pc' = "done"
    /\ turn' = [turn EXCEPT !.responded = TRUE]
    /\ UNCHANGED <<run_states, next_row_id, next_call, state, result, out, norm,
                   transcript>>

NextTools ==
    \/ \E supplied \in ToolResults : ToolOutputBegin(supplied)
    \/ ToolOutputRespond

SpecTools == InitTools /\ [][NextTools]_vars

\* ------------------------------------------- two callers on the same table
\* Two requests run at once (two workers, or two tasks of one loop switching
\* at an await): each query to the run_states table is one step, and the
\* steps of the two callers interleave.  Here pc, turn and state hold one
\* entry per caller, and out is the log of the steps in the order the table
\* saw them.
Callers == {1, 2}

RaceOps == {"save_run_state", "action"}

\* the run state caller c saves: suspended on tool call c
RaceState(c) == to_state([NoResult EXCEPT !.interruptions = NewCalls(c, 1)])

\* a caller saves its run state, or approves tool call 1
RaceTurn(kind, thread_id) ==
    [NoTurn EXCEPT !.kind = kind, !.thread_id = thread_id, !.ctx = Owner,
                   !.action_type = IF kind = "action" THEN "tool_approval" ELSE "none",
                   !.approval_action = IF kind = "action" THEN "approve" ELSE "none",
                   !.interruption_id = IF kind = "action" THEN CallId(1) ELSE PyNone]

Step(c, op, tools_run) == [caller |-> c, op |-> op, tools_run |-> tools_run]

\* the table either holds no run state, or the one of tool call 1 on t1
InitRace ==
    /\ \E suspended \in BOOLEAN :
          /\ run_states = IF suspended
                          THEN save_run_state(<<>>, 1, "t1", RaceState(1), Owner, "ok").rows
                          ELSE <<>>
          /\ next_row_id = IF suspended THEN 2 ELSE 1
    /\ next_call = 2
    /\ pc = [c \in Callers |-> "start"]
    /\ turn \in [Callers -> { RaceTurn(kind, thread_id) :
                                kind \in RaceOps, thread_id \in Threads }]
    /\ state = [c \in Callers |-> IF turn[c].kind = "save_run_state"
                                  THEN RaceState(c) ELSE NoState]
    /\ result = NoResult
    /\ out = <<>>
    /\ norm = NoNorm
    /\ transcript = {}

\* save_run_state up to its DELETE: state.to_json() and the delete query
SaveDelete(c) ==
    /\ pc[c] = "start"
    /\ turn[c].kind = "save_run_state"
    /\ run_states' = NotMatching(run_states, turn[c].thread_id, turn[c].ctx.user_id)
    /\ pc' = [pc EXCEPT ![c] = "deleted"]
    /\ out' = Append(out, Step(c, "delete", {}))
    /\ UNCHANGED <<next_row_id, next_call, turn, state, result, norm, transcript>>

\* the INSERT: a new row; on a table that enforces one row per thread and
\* user it raises when a row is there, and the except returns None
insert_run_state(rows, next_id, thread_id, st, ctx, unique) ==
    IF unique /\ Matching(rows, thread_id, ctx.user_id) # <<>>
    THEN [rows |-> rows, ret |-> 0]
    ELSE [rows |-> Append(rows, [id |-> next_id, thread_id |-> thread_id,
                                 user_id |-> ctx.user_id,
                                 state_data |-> json_dumps(to_json(st))]),
          ret |-> next_id]

\* save_run_state from json.dumps to its return (the schema of the table is
\* not in the source: both kinds of table are covered)
SaveInsert(c) ==
    /\ pc[c] = "deleted"
    /\ turn[c].kind = "save_run_state"
    /\ \E unique \in BOOLEAN :
          LET saved == insert_run_state(run_states, next_row_id, turn[c].thread_id,
                                        state[c], turn[c].ctx, unique)
          IN /\ run_states' = saved.rows
             /\ next_row_id' = IF saved.ret # 0 THEN next_row_id + 1 ELSE next_row_id
             /\ turn' = [turn EXCEPT ![c].saved = saved.ret, ![c].outcome = "returned"]
    /\ pc' = [pc EXCEPT ![c] = "done"]
    /\ out' = Append(out, Step(c, "insert", {}))
    /\ UNCHANGED <<next_call, state, result, norm, transcript>>

\* action() up to the verdict: load_run_state, the match, approve
ActionLoad(c) ==
    /\ pc[c] = "start"
    /\ turn[c].kind = "action"
    /\ LET loaded == load_run_state(run_states, turn[c].thread_id, turn[c].ctx)
           m == matching_interruption(loaded.interruptions, turn[c].interruption_id)
       IN IF HasState(loaded) /\ m # 0
          THEN /\ state' = [state EXCEPT ![c] = approve(loaded, m)]
               /\ turn' = [turn EXCEPT ![c].matching = m]
               /\ pc' = [pc EXCEPT ![c] = "loaded"]
          ELSE /\ state' = [state EXCEPT ![c] = loaded]
               /\ turn' = [turn EXCEPT ![c].outcome = "returned"]
               /\ pc' = [pc EXCEPT ![c] = "done"]
    /\ out' = Append(out, Step(c, "load", {}))
    /\ UNCHANGED <<run_states, next_row_id, next_call, result, norm, transcript>>

\* action(): delete_run_state before the resume
ActionDelete(c) ==
    /\ pc[c] = "loaded"
    /\ run_states' = delete_run_state(run_states, turn[c].thread_id, turn[c].ctx)
    /\ pc' = [pc EXCEPT ![c] = "deleted"]
    /\ out' = Append(out, Step(c, "delete", {}))
    /\ UNCHANGED <<next_row_id, next_call, turn, state, result, norm, transcript>>

\* action(): the resumed pass, which here raises no further call
ActionRun(c) ==
    /\ pc[c] = "deleted"
    /\ turn[c].kind = "action"
    /\ LET st == replace_context(state[c])
           res == run_streamed(st, next_call, 0, 0)
       IN /\ state' = [state EXCEPT ![c] = st]
          /\ transcript' = transcript \cup res.tool_items
          /\ out' = Append(out, Step(c, "run", res.tools_run))
    /\ turn' = [turn EXCEPT ![c].run_input = "saved_state", ![c].outcome = "returned"]
    /\ pc' = [pc EXCEPT ![c] = "done"]
    /\ UNCHANGED <<run_states, next_row_id, next_call, result, norm>>

NextRace ==
    \E c \in Callers :
        \/ SaveDelete(c)
        \/ SaveInsert(c)
        \/ ActionLoad(c)
        \/ ActionDelete(c)
        \/ ActionRun(c)

SpecRace == InitRace /\ [][NextRace]_vars

\* ------------------------------------------- one conversation to its end
\* The owner sends one message on t1, the consumer drains every pass, and
\* every approval request of the last turn is answered with approve or
\* reject.  The handlers are tasks that run to their end, and each request
\* gets its decision: weak fairness on every step.  The runtime raises at
\* most MaxCalls tool calls.
LiveRespond ==
    /\ turn.kind = "none"
    /\ RespondPass("t1", Owner, TRUE)

LiveDecide ==
    \E j \in 1..Len(out), verdict \in {"approve", "reject"} :
        /\ turn.outcome = "returned"
        /\ out[j].type = "approval"
        /\ ActionPass("t1", Owner, [type |-> "tool_approval", action |-> verdict,
                                    interruption_id |-> out[j].interruption_id])

LiveRespondFinish == \E conv \in ConvOutcomes : RespondFinish(conv)

LiveActionFinish == \E conv \in ConvOutcomes : ActionFinish(conv)

NextLive ==
    \/ LiveRespond
    \/ LiveDecide
    \/ Forward
    \/ LiveRespondFinish
    \/ LiveActionFinish

SpecLive ==
    /\ Init
    /\ [][NextLive]_vars
    /\ WF_vars(LiveRespond)
    /\ WF_vars(LiveDecide)
    /\ WF_vars(Forward)
    /\ WF_vars(LiveRespondFinish)
    /\ WF_vars(LiveActionFinish)

\* ============================================================ properties
TurnEnded == pc = "idle" /\ turn.kind # "none"

\* the turn invoked the runtime and has finished after draining its pass
PassDrained == TurnEnded /\ turn.run_input # "none" /\ turn.outcome = "returned"

\* number of run_states rows of the turn's conversation and owner
Persisted == Len(Matching(run_states, turn.thread_id, turn.ctx.user_id))

\* two ids are equal: both present, same text
EqId(a, b) == a.t # "none" /\ b.t # "none" /\ a.s = b.s

\* positions in the turn's output of the approval requests for a call id
Requests(call_id) ==
    { j \in 1..Len(out) : out[j].type = "approval" /\ EqId(out[j].interruption_id, call_id) }

OpenCallIds(interruptions) ==
    { interruptions[i].raw_item.call_id : i \in 1..Len(interruptions) }

\* C1: every turn whose pass ends with open interruptions ends with a run
\* state persisted for the conversation and exactly one approval request
\* emitted for each of those interruptions.
C1_SuspensionPersistedAndRequested ==
    (PassDrained /\ Len(result.interruptions) > 0)
        => /\ Persisted >= 1
           /\ \A c \in OpenCallIds(result.interruptions) : Cardinality(Requests(c)) = 1

\* C2: whenever the runtime has been invoked on a persisted run state, the
\* persisted document of that conversation is no longer in the store.
C2_DeletedBeforeResume ==
    (pc = "streaming" /\ turn.run_input = "saved_state") => Persisted = 0

\* C3: the runtime is invoked on a persisted run state only after an approve
\* or reject decision was applied, in the same turn, to one of its open
\* suspensions.
C3_ResumeOnlyAfterDecision ==
    (pc = "streaming" /\ turn.run_input = "saved_state")
        => /\ turn.matching # 0
           /\ state.approvals[turn.matching] \in {"approved", "rejected"}

\* a decision reached the matcher with an interruption_id that is the call_id
\* of no open suspension of the loaded run state
UnmatchedDecision ==
    /\ TurnEnded /\ turn.kind = "action" /\ turn.action_type = "tool_approval"
    /\ HasState(state) /\ turn.run_input = "none"
    /\ Truthy(turn.interruption_id)
    /\ \A c \in OpenCallIds(state.interruptions) : ~EqId(c, turn.interruption_id)

\* C4: an unmatched decision ends with an error outcome, never as a turn
\* that returned normally with no events.
C4_UnmatchedIsError ==
    UnmatchedDecision => ~(turn.outcome = "returned" /\ out = <<>>)

\* a decision arrived, its agent was loaded, and no run state was persisted
StaleDecision ==
    /\ TurnEnded /\ turn.kind = "action" /\ turn.action_type = "tool_approval"
    /\ turn.ctx.agent_id # NoAgent
    /\ load_agent_from_database(turn.ctx.agent_id, turn.ctx) = "agent"
    /\ ~HasState(state) /\ turn.run_input = "none"

\* C5: a decision with no persisted run state ends as a failure surfaced to
\* the caller, without invoking the runtime and with nothing yielded.
C5_StaleDecisionFails ==
    StaleDecision => (turn.outcome # "returned" /\ out = <<>> /\ Persisted = 0)

\* a decision whose interruption_id is absent or empty
MissingIdDecision ==
    /\ TurnEnded /\ turn.kind = "action" /\ turn.action_type = "tool_approval"
    /\ ~Truthy(turn.interruption_id)

\* C6: a decision without interruption_id matches nothing: no approve or
\* reject is applied, the persisted state stays, the runtime is not invoked.
C6_MissingIdNeverMatched ==
    MissingIdDecision
        => /\ turn.matching = 0
           /\ turn.run_input = "none"
           /\ \A i \in 1..Len(state.approvals) : state.approvals[i] = "pending"
           /\ (HasState(state) =>
                 /\ Persisted = 1
                 /\ from_json(Matching(run_states, turn.thread_id,
                                       turn.ctx.user_id)[1].state_data) = state)

C6_Witness ==
    /\ MissingIdDecision /\ HasState(state)
    /\ Len(state.interruptions) = 1 /\ Persisted = 1

C9_NoStateAfterCompletion ==
    (PassDrained /\ Len(result.interruptions) = 0) => Persisted = 0

C9_Witness ==
    /\ PassDrained /\ Len(result.interruptions) = 0
    /\ turn.kind = "action" /\ HasState(state) /\ Persisted = 0

\* C7: for a decision that carries an interruption_id, the matcher returns
\* the first interruption, in list order, whose raw_item.call_id equals it,
\* and nothing exactly when no interruption has that call_id; the id of the
\* wrapper plays no part.
C7_MatchByCallId ==
    (pc = "matched" /\ Truthy(turn.interruption_id))
        => LET ints == state.interruptions
               hits == { j \in 1..Len(ints) :
                           EqId(ints[j].raw_item.call_id, turn.interruption_id) }
           IN /\ (turn.matching = 0) <=> (hits = {})
              /\ turn.matching # 0 =>
                    /\ turn.matching \in hits
                    /\ \A j \in hits : turn.matching <= j

C7_Witness ==
    /\ pc = "matched" /\ Truthy(turn.interruption_id)
    /\ Len(state.interruptions) = 2
    /\ \A j \in 1..2 : EqId(state.interruptions[j].raw_item.call_id, turn.interruption_id)
    /\ ~EqId(state.interruptions[1].id, turn.interruption_id)
    /\ turn.matching = 1

\* no conversation and owner has more than one run_states row
AtMostOneDocument ==
    \A thread_id \in Threads, user_id \in Users :
        Len(Matching(run_states, thread_id, user_id)) <= 1

\* the only row of the conversation is the one this save_run_state inserted
NewDocumentOnly ==
    /\ turn.saved # 0
    /\ Persisted = 1
    /\ Matching(run_states, turn.thread_id, turn.ctx.user_id)[1].id = turn.saved
    /\ Matching(run_states, turn.thread_id, turn.ctx.user_id)[1].state_data
         = json_dumps(to_json(state))

AnsweringDecision ==
    /\ turn.kind = "action" /\ turn.action_type = "tool_approval"
    /\ turn.approval_action \in {"approve", "reject"}
    /\ turn.answers

\* C11: a decision built from the payload of an emitted approval request
\* (its interruption_id and verdict), with no turn in between, is matched to
\* the suspension the request was emitted for; and when the resumed pass ends
\* with no interruption, no run state is persisted for the conversation.
C11_PayloadMatchesSuspension ==
    AnsweringDecision
        => /\ turn.matching # 0
           /\ EqId(state.interruptions[turn.matching].raw_item.call_id,
                   turn.interruption_id)
           /\ (PassDrained /\ Len(result.interruptions) = 0) => Persisted = 0

\* the call id of the suspension the decision of the turn was applied to
DecidedCall == state.interruptions[turn.matching].raw_item.call_id

ArrivedWith(item) ==
    (CHOOSE e \in { norm.seen[j] : j \in 1..Len(norm.seen) } : e.item = item).id

\* C13: the forwarded added event and the forwarded done event of one
\* logical item carry the same id, whether the item arrived with a real id
\* or with a placeholder.
C13_AddedDoneSameId ==
    \A i, j \in 1..Len(out) :
        (out[i].item = out[j].item /\ out[i].type = "thread.item.added"
           /\ out[j].type = "thread.item.done")
            => out[i].id = out[j].id

C13_Witness ==
    /\ Len(out) = 3
    /\ out[1].type = "thread.item.added" /\ out[3].type = "thread.item.done"
    /\ out[1].item = out[3].item /\ out[2].item # out[1].item
    /\ IsPlaceholder(ArrivedWith(out[1].item))
    /\ ~IsPlaceholder(out[1].id) /\ out[1].id = out[3].id

\* C14: no two forwarded done events carry the same final id.
C14_OneDonePerFinalId ==
    \A i, j \in 1..Len(out) :
        (i < j /\ out[i].type = "thread.item.done" /\ out[j].type = "thread.item.done")
            => out[i].id # out[j].id

\* C15: two distinct logical items that both arrived with a placeholder id
\* are forwarded with different final ids.
C15_DistinctItemsDistinctIds ==
    \A i, j \in 1..Len(out) :
        (out[i].item # out[j].item
           /\ out[i].type # "thread.item.updated" /\ out[j].type # "thread.item.updated"
           /\ IsPlaceholder(ArrivedWith(out[i].item))
           /\ IsPlaceholder(ArrivedWith(out[j].item)))
            => out[i].id # out[j].id

\* C16: no forwarded event (added, done or updated) carries a placeholder id.
C16_NoPlaceholderForwarded ==
    \A j \in 1..Len(out) : ~IsPlaceholder(out[j].id)

\* a forwarded event is the event read, but for the repair of its id
Forwarded(f, e) ==
    /\ f.type = e.type /\ f.kind = e.kind /\ f.item = e.item
    /\ (f.id = e.id \/ IsPlaceholder(e.id))

RECURSIVE IsSubsequence(_, _)
IsSubsequence(fwd, read) ==
    IF fwd = <<>> THEN TRUE
    ELSE IF read = <<>> THEN FALSE
    ELSE IF Forwarded(Head(fwd), Head(read))
    THEN IsSubsequence(Tail(fwd), Tail(read))
    ELSE IsSubsequence(fwd, Tail(read))

\* C17: the events forwarded so far are, in order, a subsequence of the
\* events read so far (each forwarded event being the event read, with its id
\* repaired).
C17_OrderPreserved == IsSubsequence(out, norm.seen)

C17_Witness ==
    /\ Len(norm.seen) = 3 /\ Len(out) = 2
    /\ out[1].type = "thread.item.done" /\ out[2].type = "thread.item.added"
    /\ norm.seen[2].type = "thread.item.done" /\ out[1].item # out[2].item

\* C18: a turn that continues from a persisted run state hands the runtime a
\* callback that returns the new items only; a fresh turn hands it the
\* history-plus-new merge.
C18_ResumeCallbackNewOnly ==
    /\ turn.run_input = "saved_state"
          => run_config_callback(turn.callback, <<"h">>, <<"n">>) = <<"n">>
    /\ turn.run_input = "agent_input"
          => run_config_callback(turn.callback, <<"h">>, <<"n">>) = <<"h", "n">>

\* C19: the run state a turn hands to the runtime after loading it from the
\* store holds the fresh request-scoped context, never the stripped one.
C19_FreshContextOnResume ==
    turn.run_input = "saved_state" => state.context = "fresh"

\* number of approval requests in the turn's output
ApprovalCount(events) ==
    Cardinality({ j \in 1..Len(events) : events[j].type = "approval" })

\* a step that inserts a run_states row or yields an approval request
WritesOrRequests ==
    \/ \E i \in 1..Len(run_states') :
          \A j \in 1..Len(run_states) : run_states[j].id # run_states'[i].id
    \/ ApprovalCount(out') > (IF pc = "streaming" THEN ApprovalCount(out) ELSE 0)

\* C20: a run state is inserted, and an approval request yielded, only by
\* the step of a turn that follows the last event of its pass; the step in
\* which the consumer stops reading early inserts nothing and yields nothing,
\* and its turn ends without an approval request.
C20_SaveOnlyAfterDrain ==
    [][ /\ WritesOrRequests => (pc = "streaming" /\ result.events = <<>>)
        /\ turn'.outcome = "cancelled"
              => (run_states' = run_states /\ ApprovalCount(out') = 0) ]_vars

C20_Witness ==
    /\ turn.outcome = "cancelled" /\ pc = "idle"
    /\ turn.kind = "respond" /\ Len(result.interruptions) > 0
    /\ result.events # <<>> /\ Persisted = 0

\* the turn called save_run_state for the interruptions of its pass and the
\* call returned None: the conversion of the run state raised
ConversionFailed ==
    /\ TurnEnded /\ turn.run_input # "none" /\ turn.outcome # "cancelled"
    /\ Len(result.interruptions) > 0 /\ turn.saved = 0

\* C21: when the run state of a pass that ended with open interruptions
\* cannot be converted, the turn ends with an error, without an approval
\* request, and no run state is persisted for the conversation.
C21_ConversionFailureSurfaced ==
    ConversionFailed
        => /\ turn.outcome # "returned"
           /\ ApprovalCount(out) = 0
           /\ Persisted = 0

\* C28: every approval request in the output of a turn names the agent, the
\* tool and the arguments of its interruption, and its plain-text fallback
\* carries the same agent, tool and arguments.
C28_RequestNamesAgentToolArguments ==
    \A j \in 1..Len(out) :
        out[j].type = "approval"
            => /\ out[j].agent_name = AgentName
               /\ out[j].tool_name = ToolName
               /\ out[j].tool_arguments = ToolArgs
               /\ out[j].copy_agent = out[j].agent_name
               /\ out[j].copy_tool = out[j].tool_name
               /\ out[j].copy_arguments = out[j].tool_arguments

\* the events the normalizer lets through, of the events given, in one run
RECURSIVE NormalizeAll(_, _, _)
NormalizeAll(n, events, dedup) ==
    IF events = <<>> THEN <<>>
    ELSE LET r == fix_chatkit_event_ids(n, Head(events), dedup)
         IN r.fwd \o NormalizeAll(r.norm, Tail(events), dedup)

\* C29: at every point of a pass the consumer has received every event
\* pulled so far that the normalizer does not drop: nothing is held back
\* until a later event or the end of the stream.
C29_NothingWithheld ==
    out = NormalizeAll(NoNorm, norm.seen, turn.kind # "respond_main")

C29_Witness ==
    /\ Len(norm.seen) = 2 /\ Len(out) = 2 /\ result.events # <<>>
    /\ out[1].id # norm.seen[1].id

\* the step of a decision that is not accepted: action() on a tool_approval
\* that ends without invoking the runtime
DecisionNotAccepted ==
    /\ pc = "idle" /\ pc' = "idle"
    /\ turn'.kind = "action" /\ turn'.action_type = "tool_approval"
    /\ turn'.run_input = "none"

\* C30: a decision that is not accepted (no agent_id, no persisted state, no
\* interruption_id, no match, or a verdict other than approve and reject)
\* leaves the run_states table as it was, runs no tool and yields nothing.
C30_RefusedDecisionChangesNothing ==
    [][ DecisionNotAccepted
          => /\ run_states' = run_states
             /\ next_call' = next_call /\ transcript' = transcript
             /\ result' = NoResult /\ out' = <<>> ]_vars

C30_Witness ==
    /\ TurnEnded /\ turn.kind = "action" /\ turn.action_type = "tool_approval"
    /\ turn.run_input = "none" /\ turn.matching # 0
    /\ turn.approval_action = "other" /\ Persisted = 1

C23_NoHandleInDocument ==
    \A i \in 1..Len(run_states) :
        LET c == run_states[i].state_data.context
        IN /\ c.class \in {"null", "dict"}
           /\ \A f \in DOMAIN c \cap Excluded : c[f] = JsonNull

C23_Witness ==
    /\ turn.kind = "save_run_state" /\ turn.saved # 0
    /\ to_json(state).context = AgentContext
    /\ Matching(run_states, turn.thread_id, turn.ctx.user_id)[1].state_data.context
         = StrippedContext

\* C24: run after a delete_run_state call, a second call changes nothing;
\* a call for a conversation with no persisted run state changes nothing;
\* and no call touches the rows of another conversation.
C24_DeleteIdempotent ==
    [][ turn'.kind = "delete_run_state"
          => /\ delete_run_state(run_states', turn'.thread_id, turn'.ctx) = run_states'
             /\ Matching(run_states, turn'.thread_id, turn'.ctx.user_id) = <<>>
                   => run_states' = run_states
             /\ NotMatching(run_states', turn'.thread_id, turn'.ctx.user_id)
                   = NotMatching(run_states, turn'.thread_id, turn'.ctx.user_id) ]_vars

C24_Witness ==
    /\ turn.kind = "delete_run_state" /\ turn.had = 0
    /\ turn.ctx.user_id # NoUser /\ Len(run_states) = 1

\* the step of caller c with operation op in the log
Pos(c, op) == CHOOSE i \in 1..Len(out) : out[i].caller = c /\ out[i].op = op

BothSaved ==
    /\ \A c \in Callers : turn[c].kind = "save_run_state" /\ pc[c] = "done"
    /\ turn[1].thread_id = turn[2].thread_id

\* C25: when two save_run_state calls for the same conversation and owner
\* have overlapped and both have finished, exactly one document is persisted
\* for the conversation, and it is that of the call that finished last.
C25_LastWriterWins ==
    BothSaved
        => LET sel == Matching(run_states, turn[1].thread_id, Owner.user_id)
               last == out[Len(out)].caller
           IN /\ Len(sel) = 1
              /\ sel[1].state_data = json_dumps(to_json(state[last]))

ResumedTwice ==
    /\ \A c \in Callers : turn[c].kind = "action" /\ turn[c].run_input = "saved_state"
    /\ turn[1].thread_id = turn[2].thread_id

\* C26: two decisions on one conversation both resume from the same
\* persisted run state exactly in the interleavings where each of them
\* loaded it before the other deleted it; such an interleaving is reachable
\* (C26_Witness), and there the approved tool call is run by both.
C26_ResumedTwiceByRace ==
    ResumedTwice
        => /\ Pos(1, "load") < Pos(2, "delete")
           /\ Pos(2, "load") < Pos(1, "delete")

C26_Witness ==
    /\ ResumedTwice
    /\ \A c \in Callers : pc[c] = "done" /\ out[Pos(c, "run")].tools_run = {CallId(1)}
    /\ run_states = <<>>

\* COMPLETE: the last pass of the conversation was drained with no open
\* interruption, and no run state is persisted for the conversation
Complete == PassDrained /\ Len(result.interruptions) = 0 /\ Persisted = 0

\* C27: with finitely many interruptions and a decision for every approval
\* request that is emitted, a conversation that has started eventually
\* reaches COMPLETE with no persisted run state.
C27_EventuallyComplete == (turn.kind # "none") ~> Complete

RowIds(rows) == { rows[i].id : i \in 1..Len(rows) }

\* the step of action() that accepts a decision and resumes the run
DecisionAccepted == pc = "idle" /\ pc' = "streaming" /\ turn'.kind = "action"

\* C31: the step that accepts a decision removes the document it resumed
\* from, a removed document never returns, and the tool call it decides was
\* not decided by an earlier accepted decision.
C31_ResumedAtMostOnce ==
    [][ /\ DecisionAccepted
            => /\ Matching(run_states, turn'.thread_id, turn'.ctx.user_id)[1].id
                     \notin RowIds(run_states')
               /\ \A it \in transcript :
                     ~EqId(it.call_id,
                           state'.interruptions[turn'.matching].raw_item.call_id)
        /\ \A id \in 1..(next_row_id - 1) :
              id \notin RowIds(run_states) => id \notin RowIds(run_states') ]_vars

C31_Witness ==
    /\ TurnEnded /\ turn.kind = "action" /\ turn.run_input = "none"
    /\ turn.approval_action \in {"approve", "reject"}
    /\ \E it \in transcript : EqId(it.call_id, turn.interruption_id)

\* C32: the normalizer drops an incoming event only if it is the done event
\* of a logical item whose done event it has already forwarded in this pass.
C32_DropsOnlyRepeatedDone ==
    [][ (result.events # <<>> /\ Len(out') = Len(out))
          => LET e == Head(result.events)
             IN /\ e.type = "thread.item.done"
                /\ \E j \in 1..Len(out) :
                      out[j].type = "thread.item.done" /\ out[j].item = e.item ]_vars

\* C37: in every state either normalizer reaches, the loop inlined in
\* action() and fix_chatkit_event_ids of respond() do the same with the next
\* event: they forward the same events with the same ids and keep the same
\* id map, done set and generator position.
C37_NormalizersEquivalent ==
    (turn.kind \in {"action", "respond"} /\ result.events # <<>>)
        => action_event_ids(norm, Head(result.events))
             = fix_chatkit_event_ids(norm, Head(result.events), TRUE)

C37_Witness ==
    /\ turn.kind = "action"
    /\ Len(norm.seen) = 3 /\ Len(out) = 2 /\ norm.generated = 1
    /\ out[1].type = "thread.item.added" /\ out[2].type = "thread.item.done"
    /\ out = NormalizeAll(NoNorm, norm.seen, TRUE)

\* C33: a turn of action() whose action type is not tool_approval ends by
\* returning normally, with nothing yielded and the runtime not invoked.
C33_OtherActionReturns ==
    (TurnEnded /\ turn.kind = "action" /\ turn.action_type # "tool_approval")
        => /\ turn.outcome = "returned"
           /\ out = <<>>
           /\ turn.run_input = "none" /\ result = NoResult

ResumedWithNewMessage ==
    /\ pc = "streaming" /\ turn.kind = "respond" /\ turn.new_input
    /\ HasState(load_run_state(run_states, turn.thread_id, turn.ctx))

\* C34: while respond() called with a new user message streams a pass on a
\* conversation that has a persisted run state, the runtime was handed that
\* state as its input, and the new user message is not in what it was handed.
C34_SavedStateNotNewMessage ==
    ResumedWithNewMessage
        => /\ turn.run_input = "saved_state"
           /\ state = load_run_state(run_states, turn.thread_id, turn.ctx)
           /\ ~turn.user_message

C34_Witness ==
    /\ ResumedWithNewMessage
    /\ turn.run_input = "saved_state" /\ Len(state.interruptions) = 1

\* the rows of one (conversation, owner) pair, and the rows of all others
OwnRows(rows, thread_id, user_id) ==
    SelectSeq(rows, LAMBDA r : r.thread_id = thread_id /\ r.user_id = user_id)

OtherRows(rows, thread_id, user_id) ==
    SelectSeq(rows, LAMBDA r : ~(r.thread_id = thread_id /\ r.user_id = user_id))

\* C35: a save_run_state or delete_run_state call for one (thread_id,
\* user_id) pair leaves the rows of every other pair as they were, and leaves
\* the whole table as it was when the context has no user_id; what
\* load_run_state returns depends on the rows of its own pair only, and is
\* None without a user_id.
C35_IsolatedPerConversationOwner ==
    [][ /\ OtherRows(run_states', turn'.thread_id, turn'.ctx.user_id)
             = OtherRows(run_states, turn'.thread_id, turn'.ctx.user_id)
        /\ turn'.ctx.user_id = NoUser => run_states' = run_states
        /\ \A thread_id \in Threads, ctx \in StoreContexts :
              /\ load_run_state(run_states', thread_id, ctx)
                    = load_run_state(OwnRows(run_states', thread_id, ctx.user_id),
                                     thread_id, ctx)
              /\ ctx.user_id = NoUser
                    => load_run_state(run_states', thread_id, ctx) = NoState ]_vars

C35_Witness ==
    /\ turn.kind = "delete_run_state" /\ turn.had = 1
    /\ turn.ctx.user_id = "u1"
    /\ Len(run_states) = 1
    /\ run_states[1].user_id = "u2" /\ run_states[1].thread_id = turn.thread_id

PlaceholderIds == {PyNone, PyStr(""), PyStr("__fake_id__"), PyStr("N/A")}

\* C36: no item is posted to the transcript store under a placeholder id;
\* an item that arrives with one (or with no id) is posted under a generated
\* id, and an item that arrives with any other id is posted under that id.
C36_NoPlaceholderPosted ==
    /\ \A j \in 1..Len(out) : out[j].id \notin PlaceholderIds
    /\ (turn.kind = "add_thread_item" /\ turn.outcome = "returned")
          => LET p == out[Len(out)]
             IN IF turn.item.has_id /\ turn.item.id \notin PlaceholderIds
                THEN p.id = turn.item.id
                ELSE p.id = generate_item_id(next_call)

C36_Witness ==
    /\ turn.kind = "add_thread_item" /\ turn.outcome = "returned"
    /\ Len(out) = 2
    /\ turn.item.has_id /\ turn.item.id = PyStr("__fake_id__")
    /\ out[1].id = PyStr("msg_1") /\ out[2].id = generate_item_id(1)

\* the prefix an id must have for an item of this type
WantedPrefix(type) ==
    IF type \in {"function_call", "function_call_output", "function_call_result"}
    THEN "fc_" ELSE "msg_"

HasPrefix(id, prefix) == id.t = "str" /\ id.s # <<>> /\ id.s[1] = prefix

\* C38: after add_items, an empty list has caused no upstream call; any
\* other list has caused one call with one item per item given, in order
\* and of the same type, each with an id whose prefix matches its type: the
\* id given when that already had the right prefix, a generated id if not.
C38_ForwardedIdsMatchType ==
    pc = "done"
        => IF turn.items = <<>> THEN out = <<>>
           ELSE /\ Len(out) = 1
                /\ Len(out[1]) = Len(turn.items)
                /\ \A i \in 1..Len(turn.items) :
                      LET given == turn.items[i]
                          sent == out[1][i]
                      IN /\ sent.type = given.type
                         /\ HasPrefix(sent.id, WantedPrefix(given.type))
                         /\ IF HasPrefix(given.id, WantedPrefix(given.type))
                            THEN sent.id = given.id
                            ELSE sent.id \notin SessionIds

C38_Witness ==
    /\ pc = "done" /\ Len(turn.items) = 2 /\ Len(out) = 1
    /\ turn.items[1].type = "function_call" /\ turn.items[1].id = Text(<<"msg_", "1">>)
    /\ out[1][1].id = token_id("fc", 1)
    /\ turn.items[2].type = "message" /\ turn.items[2].id = Text(<<"msg_", "1">>)
    /\ out[1][2].id = Text(<<"msg_", "1">>)

\* the items of the request's thread that were on the newest page
OnNewestPage(i) == i > Len(turn.items) - MaxPage

PendingOnPage ==
    {i \in 1..Len(turn.items) :
        /\ OnNewestPage(i)
        /\ turn.items[i].type = "chatkit.client_tool_call"
        /\ turn.items[i].status = "pending"}

NewestPending == CHOOSE i \in PendingOnPage : \A j \in PendingOnPage : j <= i

====
